---- MODULE Spec2Model ----
(***************************************************************************)
(* A model of solvation_analysis/analysis_library.py: the analyzers        *)
(* Speciation, Coordination, Pairing, Residence and Clustering as pure     *)
(* transforms of one coordination-event table (solvation_data).            *)
(*                                                                         *)
(* Conventions                                                             *)
(*  - solvation_data is a set of rows; a row is a record with the index    *)
(*    levels frame, solvated_atom, atom_ix and the columns res_name,       *)
(*    res_ix, dist.  The index (frame, solvated_atom, atom_ix) is unique.  *)
(*  - a float is an exact fraction <<num, den>> in lowest terms, den > 0;  *)
(*    NaN is <<0, 0>>.  Rounding of IEEE doubles is not modelled.          *)
(*  - a pandas Series / DataFrame is a function from its index to its      *)
(*    values; the order of rows is modelled only where a result is a list. *)
(***************************************************************************)
EXTENDS Integers, Sequences, FiniteSets, TLC

VARIABLES solvation_data, n_frames, n_solutes, solvent_counts,
          speciation, coordination, pairing, residence, ret

vars == <<solvation_data, n_frames, n_solutes, solvent_counts,
          speciation, coordination, pairing, residence, ret>>

inputs == <<solvation_data, n_frames, n_solutes, solvent_counts>>

(***************************************************************************)
(* Bounds of the model.                                                    *)
(***************************************************************************)
MaxFrames == 2
MaxSolutes == 2
MaxEvents == 3
MaxQueryCount == 1
MaxQueryKeys == 2
MaxResidenceFrames == 3

(***************************************************************************)
(* The simulated system the event table is drawn from: the coordinating    *)
(* atoms, each with the residue it belongs to.  Residue 0 (type A) has two *)
(* coordinating atoms, residue 1 (type A) and residue 2 (type B) have one. *)
(***************************************************************************)
SolventAtoms ==
    { [atom_ix |-> 0, res_ix |-> 0, res_name |-> "A"],
      [atom_ix |-> 1, res_ix |-> 0, res_name |-> "A"],
      [atom_ix |-> 2, res_ix |-> 1, res_name |-> "A"],
      [atom_ix |-> 3, res_ix |-> 2, res_name |-> "B"] }

SolventNames == {a.res_name : a \in SolventAtoms}

SolventResidues == {a.res_ix : a \in SolventAtoms}

Solutes == 0 .. (MaxSolutes - 1)

\* every row the upstream producer can emit for nf frames and ns solutes
AllEvents(nf, ns) ==
    { [frame |-> f, solvated_atom |-> s, atom_ix |-> a.atom_ix,
       res_name |-> a.res_name, res_ix |-> a.res_ix, dist |-> 1] :
         f \in 0 .. (nf - 1), s \in 0 .. (ns - 1), a \in SolventAtoms }

\* the tables of at most k rows
RECURSIVE TablesUpTo(_, _)
TablesUpTo(k, events) ==
    IF k = 0 THEN {{}}
    ELSE LET P == TablesUpTo(k - 1, events)
         IN  P \cup {T \cup {e} : T \in P, e \in events}

\* n_solvents: the population of each residue type
NSolvents ==
    [t \in SolventNames |->
        Cardinality({a.res_ix : a \in {b \in SolventAtoms : b.res_name = t}})]

(***************************************************************************)
(* Floats as exact fractions.                                              *)
(***************************************************************************)
NaN == <<0, 0>>

RECURSIVE GCD(_, _)
GCD(a, b) == IF b = 0 THEN a ELSE GCD(b, a % b)

Abs(x) == IF x < 0 THEN -x ELSE x

\* n / d as a float: x / 0 is NaN for x = 0 (0/0); the model never divides
\* a non-zero value by zero
Frac(n, d) ==
    IF d = 0 THEN NaN
    ELSE LET g == GCD(Abs(n), Abs(d))
             s == IF d < 0 THEN -1 ELSE 1
         IN  <<(s * n) \div g, (s * d) \div g>>

IsNaN(x) == x[2] = 0

FAdd(x, y) ==
    IF IsNaN(x) \/ IsNaN(y) THEN NaN
    ELSE Frac(x[1] * y[2] + y[1] * x[2], x[2] * y[2])

FSub(x, y) ==
    IF IsNaN(x) \/ IsNaN(y) THEN NaN
    ELSE Frac(x[1] * y[2] - y[1] * x[2], x[2] * y[2])

FDiv(x, y) ==
    IF IsNaN(x) \/ IsNaN(y) THEN NaN
    ELSE Frac(x[1] * y[2], x[2] * y[1])

FromInt(n) == <<n, 1>>

\* the sum of the values f[k], k \in S
RECURSIVE FSum(_, _)
FSum(f, S) ==
    IF S = {} THEN FromInt(0)
    ELSE LET k == CHOOSE x \in S : TRUE
         IN  FAdd(f[k], FSum(f, S \ {k}))

RECURSIVE ISum(_, _)
ISum(f, S) ==
    IF S = {} THEN 0
    ELSE LET k == CHOOSE x \in S : TRUE
         IN  f[k] + ISum(f, S \ {k})

(***************************************************************************)
(* groupby(["frame", "solvated_atom", "res_name"]).count()["res_ix"]:      *)
(* for every observed (frame, solute, type) the number of ROWS of the      *)
(* group (count() counts the non-null res_ix cells, one per row).          *)
(***************************************************************************)
CountsIndex(sd) == {<<e.frame, e.solvated_atom, e.res_name>> : e \in sd}

GroupCount(sd) ==
    [k \in CountsIndex(sd) |->
        Cardinality({e \in sd : /\ e.frame = k[1]
                                /\ e.solvated_atom = k[2]
                                /\ e.res_name = k[3]})]

ResNames(sd) == {e.res_name : e \in sd}

(***************************************************************************)
(* Speciation                                                              *)
(***************************************************************************)
\* counts_re.pivot(columns=["res_name"]).fillna(0).astype(int): one row per
\* observed (frame, solute), one column per observed type
SpeciationData(sd) ==
    LET counts == GroupCount(sd)
        index == {<<k[1], k[2]>> : k \in DOMAIN counts}
    IN  [fs \in index |->
            [t \in ResNames(sd) |->
                IF <<fs[1], fs[2], t>> \in DOMAIN counts
                THEN counts[<<fs[1], fs[2], t>>] ELSE 0]]

\* speciation_data.groupby(all columns).size(), then 'count' divided by
\* n_frames * n_solutes.  The rows are a set: their order after
\* sort_values is not modelled.
SpeciationPercent(data, nf, ns) ==
    LET shells == {data[fs] : fs \in DOMAIN data}
    IN  { [shell |-> sh,
           count |-> Frac(Cardinality({fs \in DOMAIN data : data[fs] = sh}),
                          nf * ns)] : sh \in shells }

_compute_speciation(sd, nf, ns) ==
    LET data == SpeciationData(sd)
    IN  [built |-> TRUE,
         speciation_data |-> data,
         speciation_percent |-> SpeciationPercent(data, nf, ns)]

NotBuilt == [built |-> FALSE]

NoCall == [op |-> "none"]

Init ==
    /\ n_frames \in 1 .. MaxFrames
    /\ n_solutes \in 1 .. MaxSolutes
    /\ solvation_data \in
          (TablesUpTo(MaxEvents, AllEvents(n_frames, n_solutes)) \ {{}})
    /\ solvent_counts = NSolvents
    /\ speciation = NotBuilt
    /\ coordination = NotBuilt
    /\ pairing = NotBuilt
    /\ residence = NotBuilt
    /\ ret = NoCall

\* Speciation.__init__
SpeciationInit ==
    /\ ~speciation.built
    /\ speciation' = _compute_speciation(solvation_data, n_frames, n_solutes)
    /\ UNCHANGED <<inputs, coordination, pairing, residence, ret>>

(***************************************************************************)
(* shell_percent and find_shells: the shell_dict becomes the expression    *)
(* "<name> == <count> and ..." handed to DataFrame.query.                  *)
(*  - query raises ValueError on the empty expression;                     *)
(*  - a name resolves to a column or an index level of the queried frame,  *)
(*    any other name raises UndefinedVariableError.                        *)
(***************************************************************************)
QueryKeys == SolventNames \cup {"count", "frame", "XX"}

ShellDicts ==
    UNION { [K -> 0 .. MaxQueryCount] :
              K \in {S \in SUBSET QueryKeys : Cardinality(S) <= MaxQueryKeys} }

\* the names DataFrame.query can resolve in speciation_percent (its columns;
\* its index is an unnamed RangeIndex) and in speciation_data (its columns
\* and its index levels)
Columns(sp) ==
    UNION {DOMAIN sp.speciation_data[fs] : fs \in DOMAIN sp.speciation_data}

PercentResolvers(sp) == Columns(sp) \cup {"count"}

DataResolvers(sp) == Columns(sp) \cup {"frame", "solvated_atom"}

QueryError(shell_dict, resolvers) ==
    IF DOMAIN shell_dict = {} THEN "ValueError"
    ELSE IF \E name \in DOMAIN shell_dict : name \notin resolvers
         THEN "UndefinedVariableError"
         ELSE "none"

\* the value of column `name` in a row of speciation_percent
PercentCell(row, name) ==
    IF name = "count" THEN row.count ELSE FromInt(row.shell[name])

\* the value of column or index level `name` in row fs of speciation_data
DataCell(data, fs, name) ==
    IF name = "frame" THEN fs[1]
    ELSE IF name = "solvated_atom" THEN fs[2]
    ELSE data[fs][name]

RECURSIVE SumCount(_)
SumCount(rows) ==
    IF rows = {} THEN FromInt(0)
    ELSE LET r == CHOOSE x \in rows : TRUE
         IN  FAdd(r.count, SumCount(rows \ {r}))

shell_percent(sp, shell_dict) ==
    LET err == QueryError(shell_dict, PercentResolvers(sp))
        query_counts ==
            {row \in sp.speciation_percent :
                \A name \in DOMAIN shell_dict :
                    PercentCell(row, name) = FromInt(shell_dict[name])}
    IN  IF err # "none"
        THEN [op |-> "shell_percent", shell_dict |-> shell_dict,
              raised |-> TRUE, error |-> err]
        ELSE [op |-> "shell_percent", shell_dict |-> shell_dict,
              raised |-> FALSE, value |-> SumCount(query_counts)]

find_shells(sp, shell_dict) ==
    LET err == QueryError(shell_dict, DataResolvers(sp))
        data == sp.speciation_data
        hits == {fs \in DOMAIN data :
                    \A name \in DOMAIN shell_dict :
                        DataCell(data, fs, name) = shell_dict[name]}
    IN  IF err # "none"
        THEN [op |-> "find_shells", shell_dict |-> shell_dict,
              raised |-> TRUE, error |-> err]
        ELSE [op |-> "find_shells", shell_dict |-> shell_dict,
              raised |-> FALSE, value |-> [fs \in hits |-> data[fs]]]

\* The query methods write no attribute, so a call's outcome does not depend
\* on the calls before it: one call is observed per behaviour, its outcome
\* kept in ret.
ShellPercent ==
    /\ speciation.built
    /\ ret = NoCall
    /\ \E shell_dict \in ShellDicts :
          ret' = shell_percent(speciation, shell_dict)
    /\ UNCHANGED <<inputs, speciation, coordination, pairing, residence>>

FindShells ==
    /\ speciation.built
    /\ ret = NoCall
    /\ \E shell_dict \in ShellDicts :
          ret' = find_shells(speciation, shell_dict)
    /\ UNCHANGED <<inputs, speciation, coordination, pairing, residence>>

NextSpeciation == SpeciationInit \/ ShellPercent \/ FindShells

SpecSpeciation == Init /\ [][NextSpeciation]_vars

(***************************************************************************)
(* Coordination                                                            *)
(***************************************************************************)
\* the index of counts.groupby(["res_name", "frame"]): the observed pairs
NameFrameIndex(sd) == {<<e.res_name, e.frame>> : e \in sd}

\* series.unstack(): rows are the types, columns the frames of the series'
\* index; a (type, frame) the series has no entry for is NaN
Unstack(series) ==
    LET names == {k[1] : k \in DOMAIN series}
        frames == {k[2] : k \in DOMAIN series}
    IN  [k \in names \X frames |->
            IF k \in DOMAIN series THEN series[k] ELSE NaN]

\* series.groupby(["res_name"]).sum().to_dict()
SumByName(series) ==
    LET names == {k[1] : k \in DOMAIN series}
    IN  [t \in names |->
            FSum(series, {k \in DOMAIN series : k[1] = t})]

\* _average_cn with the groups turned into booleans before they are summed
\* (as _percent_coordinated does): a solute counts once per type
_average_cn_presence(sd, nf, ns) ==
    LET counts == GroupCount(sd)
        cn_series ==
            [k \in NameFrameIndex(sd) |->
                Frac(Cardinality({c \in DOMAIN counts :
                                     c[3] = k[1] /\ c[1] = k[2]}),
                     ns * nf)]
    IN  [built |-> TRUE,
         cn_dict |-> SumByName(cn_series),
         cn_by_frame |-> Unstack(cn_series)]

_average_cn(sd, nf, ns) ==
    LET counts == GroupCount(sd)
        cn_series ==
            [k \in NameFrameIndex(sd) |->
                Frac(ISum(counts, {c \in DOMAIN counts :
                                      c[3] = k[1] /\ c[1] = k[2]}),
                     ns * nf)]
    IN  [built |-> TRUE,
         cn_dict |-> SumByName(cn_series),
         cn_by_frame |-> Unstack(cn_series)]

\* Coordination.__init__ (coordinating_atoms is not modelled: it reads the
\* atom types of an MDAnalysis AtomGroup)
CoordinationInit ==
    /\ ~coordination.built
    /\ coordination' = _average_cn(solvation_data, n_frames, n_solutes)
    /\ UNCHANGED <<inputs, speciation, pairing, residence, ret>>

NextCoordination == SpeciationInit \/ CoordinationInit

SpecCoordination == Init /\ [][NextCoordination]_vars

(***************************************************************************)
(* Pairing                                                                 *)
(***************************************************************************)
_percent_coordinated(sd, nf, ns) ==
    LET counts == GroupCount(sd)
        \* counts.astype(bool): every group has at least one row, so every
        \* entry is True and sums as 1
        pairing_series ==
            [k \in NameFrameIndex(sd) |->
                Frac(Cardinality({c \in DOMAIN counts :
                                     /\ c[3] = k[1] /\ c[1] = k[2]
                                     /\ counts[c] # 0}),
                     ns)]
        pairing_normalized ==
            [k \in DOMAIN pairing_series |->
                FDiv(pairing_series[k], FromInt(nf))]
    IN  [pairing_dict |-> SumByName(pairing_normalized),
         pairing_by_frame |-> Unstack(pairing_series)]

\* _percent_free_solvent without the division by n_frames: the coordinated
\* (frame, residue) pairs of the whole run are set against one frame's
\* population
_percent_free_solvent_summed(sd, nf, sc) ==
    LET counts == {<<e.frame, e.res_ix, e.res_name>> : e \in sd}
        names == {c[3] : c \in counts}
        totals == [t \in names |->
                      FromInt(Cardinality({c \in counts : c[3] = t}))]
    IN  [t \in names |->
            FSub(FromInt(1), FDiv(totals[t], FromInt(sc[t])))]

_percent_free_solvent(sd, nf, sc) ==
    LET \* groupby(["frame", "res_ix", "res_name"]).count()['dist']
        counts == {<<e.frame, e.res_ix, e.res_name>> : e \in sd}
        names == {c[3] : c \in counts}
        \* counts.groupby(['res_name']).count() / n_frames
        totals == [t \in names |->
                      Frac(Cardinality({c \in counts : c[3] = t}), nf)]
    IN  [t \in names |->
            FSub(FromInt(1), FDiv(totals[t], FromInt(sc[t])))]

\* series.groupby(['res_name']).mean(): NaN entries are skipped, and the
\* mean of no entry is NaN
MeanByName(series) ==
    LET names == {k[2] : k \in DOMAIN series}
    IN  [t \in names |->
            LET valid == {k \in DOMAIN series : k[2] = t /\ ~IsNaN(series[k])}
            IN  IF valid = {} THEN NaN
                ELSE FDiv(FSum(series, valid), FromInt(Cardinality(valid)))]

_diluent_composition(sd, sc) ==
    LET \* groupby(["frame", "res_name"]).nunique()["res_ix"]
        index == {<<e.frame, e.res_name>> : e \in sd}
        coordinated_solvents ==
            [k \in index |->
                Cardinality({e.res_ix : e \in
                    {x \in sd : x.frame = k[1] /\ x.res_name = k[2]}})]
        \* solvent_counts.reindex(coordinated_solvents.index, level=1)
        total_solvents == [k \in index |-> sc[k[2]]]
        diluent_solvents ==
            [k \in index |-> total_solvents[k] - coordinated_solvents[k]]
        \* diluent_solvents.groupby(['frame']).sum()
        frame_sum(f) == ISum(diluent_solvents, {k \in index : k[1] = f})
        diluent_by_frame ==
            [k \in index |-> Frac(diluent_solvents[k], frame_sum(k[1]))]
    IN  [diluent_composition |-> MeanByName(diluent_by_frame),
         diluent_by_frame |-> diluent_by_frame]

\* Pairing.__init__
PairingInit ==
    /\ ~pairing.built
    /\ pairing' =
          LET pc == _percent_coordinated(solvation_data, n_frames, n_solutes)
              dc == _diluent_composition(solvation_data, solvent_counts)
          IN  [built |-> TRUE,
               pairing_dict |-> pc.pairing_dict,
               pairing_by_frame |-> pc.pairing_by_frame,
               percent_free_solvents |->
                   _percent_free_solvent(solvation_data, n_frames,
                                         solvent_counts),
               diluent_composition |-> dc.diluent_composition,
               diluent_by_frame |-> dc.diluent_by_frame]
    /\ UNCHANGED <<inputs, speciation, coordination, residence, ret>>

NextPairing == PairingInit

SpecPairing == Init /\ [][NextPairing]_vars

\* Coordination and Pairing built from the same table
NextEndToEnd == CoordinationInit \/ PairingInit

SpecEndToEnd == Init /\ [][NextEndToEnd]_vars

(***************************************************************************)
(* Clustering                                                              *)
(***************************************************************************)
\* solute_res_ix: the residue index of every solute instance, and
\* res_name_map: the name of every residue index.  Solutes and solvents
\* share one residue-index space.
SoluteResIx == [s \in Solutes |-> Cardinality(SolventResidues) + s]

ResNameMap ==
    [r \in SolventResidues \cup {SoluteResIx[s] : s \in Solutes} |->
        IF r \in SolventResidues
        THEN (CHOOSE a \in SolventAtoms : a.res_ix = r).res_name
        ELSE "solute"]

Min(S) == CHOOSE x \in S : \A y \in S : x <= y

\* the elements of a set of integers in ascending order, as pandas keeps
\* the labels of a groupby or unstack result
RECURSIVE Sorted(_)
Sorted(S) ==
    IF S = {} THEN <<>>
    ELSE <<Min(S)>> \o Sorted(S \ {Min(S)})

RECURSIVE Concat(_)
Concat(seqs) ==
    IF seqs = <<>> THEN <<>> ELSE Head(seqs) \o Concat(Tail(seqs))

\* Op applied to the value of v: v is evaluated once, however often Op
\* reads its argument
Bind(v, Op(_)) == CHOOSE r \in {Op(x) : x \in {v}} : TRUE

\* Residence.calculate_adjacency_dataframe: the number of rows of every
\* observed (frame, solvated_atom, res_ix), unstacked on res_ix with 0 for
\* the combinations that have no row
calculate_adjacency_dataframe(sd) ==
    LET index == {<<e.frame, e.solvated_atom>> : e \in sd}
        columns == {e.res_ix : e \in sd}
    IN  [k \in index |->
            [r \in columns |->
                Cardinality({e \in sd : /\ e.frame = k[1]
                                        /\ e.solvated_atom = k[2]
                                        /\ e.res_ix = r})]]

\* Clustering.unwrap_adjacency_dataframe: df is the frame's block of the
\* graph, a function solute -> (solvent -> count); idx lists its columns,
\* then its rows.  The result is the symmetric matrix over 1 .. Len(idx).
unwrap_adjacency_dataframe(df, idx) ==
    LET columns == UNION {DOMAIN df[s] : s \in DOMAIN df}
        \* connections.reindex(index=idx, columns=idx, fill_value=0)
        directed(i, j) ==
            IF idx[i] \in DOMAIN df /\ idx[j] \in DOMAIN df[idx[i]]
            THEN df[idx[i]][idx[j]] ELSE 0
    IN  [i \in 1 .. Len(idx) |->
            [j \in 1 .. Len(idx) |-> directed(i, j) + directed(j, i)]]

\* scipy.sparse.csgraph.connected_components(directed=False,
\* return_labels=True): the nodes are visited in index order, and every
\* node not yet labelled starts the next label, given to all it reaches
\* the nodes joined to the nodes of S by a path of non-zero entries
RECURSIVE Reachable(_, _)
Reachable(matrix, S) ==
    LET more == S \cup {j \in DOMAIN matrix :
                            \E i \in S : matrix[i][j] # 0}
    IN  IF more = S THEN S ELSE Reachable(matrix, more)

\* the first node (in index order) of every node's component
Roots(matrix) == [i \in DOMAIN matrix |-> Min(Reachable(matrix, {i}))]

\* a component's label is the number of components that start before it
Rank(root) ==
    [i \in DOMAIN root |->
        Cardinality({root[j] : j \in {x \in DOMAIN root : root[x] < root[i]}})]

connected_components(matrix) == Bind(Roots(matrix), Rank)

\* np.vstack([frame, clusters, res_names, res index]).T
ClusterArray(frame, clusters, ix_to_res_ix) ==
    [i \in 1 .. Len(ix_to_res_ix) |->
        [frame |-> frame,
         cluster |-> clusters[i],
         res_name |-> ResNameMap[ix_to_res_ix[i]],
         res_ix |-> ix_to_res_ix[i]]]

\* one frame's block of the graph with every column of the graph, the
\* empty ones too
FrameBlockAllColumns(graph, frame) ==
    LET rows == {k \in DOMAIN graph : k[1] = frame}
    IN  [s \in {k[2] : k \in rows} |-> graph[<<frame, s>>]]

\* one frame's block of the graph without its empty columns:
\* df.loc[:, (df != 0).any(axis=0)]
FrameBlock(graph, frame) ==
    LET rows == {k \in DOMAIN graph : k[1] = frame}
        allcols == UNION {DOMAIN graph[k] : k \in rows}
    IN  Bind({r \in allcols : \E k \in rows : graph[k][r] # 0},
             LAMBDA cols : [s \in {k[2] : k \in rows} |->
                               [r \in cols |-> graph[<<frame, s>>][r]]])

\* the rows generate_clusters appends for one frame of the graph
FrameClusters(graph, frame) ==
    Bind(FrameBlock(graph, frame), LAMBDA df :
      LET solute_map == Sorted(DOMAIN df)
          solvent_map == Sorted(UNION {DOMAIN df[s] : s \in DOMAIN df})
      IN  Bind(solvent_map \o solute_map, LAMBDA ix_to_res_ix :
            Bind(unwrap_adjacency_dataframe(df, ix_to_res_ix),
                 LAMBDA adjacency_df :
                   Bind(connected_components(adjacency_df), LAMBDA clusters :
                          ClusterArray(frame, clusters, ix_to_res_ix)))))

\* sort_values(['frame', 'cluster']) of one frame's rows: a stable sort
RECURSIVE SortByCluster(_, _)
SortByCluster(rows, c) ==
    IF \A i \in DOMAIN rows : rows[i].cluster < c THEN <<>>
    ELSE SelectSeq(rows, LAMBDA r : r.cluster = c)
           \o SortByCluster(rows, c + 1)

\* the loop over graph.groupby('frame'), np.concatenate, and the sorted
\* cluster_df
ClusterFrame(graph) ==
    LET frames == Sorted({k[1] : k \in DOMAIN graph})
    IN  Concat([n \in 1 .. Len(frames) |->
                  Bind(FrameClusters(graph, frames[n]),
                       LAMBDA rows : SortByCluster(rows, 0))])

generate_clusters(sd, arg, solute_res_ix) ==
    LET \* solvents = [solvents] if isinstance(solvents, str) else solvents
        solvents == IF arg.kind = "str" THEN {arg.name} ELSE arg.names
        solvation_subset == {e \in sd : e.res_name \in solvents}
        reindexed_subset ==
            {[e EXCEPT !.solvated_atom = solute_res_ix[e.solvated_atom]] :
                e \in solvation_subset}
    IN  IF solvation_subset = {}
        THEN \* no frame to loop over: np.concatenate of an empty list
             [op |-> "generate_clusters", solvents |-> arg,
              raised |-> TRUE, error |-> "ValueError"]
        ELSE [op |-> "generate_clusters", solvents |-> arg,
              raised |-> FALSE,
              value |-> Bind(calculate_adjacency_dataframe(reindexed_subset),
                             ClusterFrame)]

SolventArgs ==
    {[kind |-> "str", name |-> t] : t \in SolventNames}
      \cup {[kind |-> "list", names |-> S] : S \in SUBSET SolventNames}

GenerateClusters ==
    /\ ret = NoCall
    /\ \E arg \in SolventArgs :
          ret' = generate_clusters(solvation_data, arg, SoluteResIx)
    /\ UNCHANGED <<inputs, speciation, coordination, pairing, residence>>

\* Clustering is given neither n_frames nor n_solutes: its tables are drawn
\* from one system, the one SoluteResIx and ResNameMap describe
InitClustering ==
    /\ n_frames = MaxFrames
    /\ n_solutes = MaxSolutes
    /\ solvation_data \in
          (TablesUpTo(MaxEvents, AllEvents(n_frames, n_solutes)) \ {{}})
    /\ solvent_counts = NSolvents
    /\ speciation = NotBuilt
    /\ coordination = NotBuilt
    /\ pairing = NotBuilt
    /\ residence = NotBuilt
    /\ ret = NoCall

NextClustering == GenerateClusters

SpecClustering == InitClustering /\ [][NextClustering]_vars

(***************************************************************************)
(* Residence                                                               *)
(***************************************************************************)
\* p0 = (1, 0.1, 0.01): Residence.exp has three parameters
NParams == 3

\* the order in which groupby(['res_name']) yields its groups
NameOrder == <<"A", "B">>

\* np.unique(solvation_data.index.droplevel(2)): the (frame, solute) pairs
\* that have a row, of whatever type
frame_solute_index(sd) == {<<e.frame, e.solvated_atom>> : e \in sd}

\* adjacency_mini.reindex(frame_solute_index, fill_value=0)
Reindex(df, index, columns) ==
    [k \in index |->
        IF k \in DOMAIN df THEN df[k] ELSE [r \in columns |-> 0]]

\* statsmodels acovf(x, demean=False, unbiased=True): lag k (held at
\* position k + 1) is the sum of x[t] * x[t + k] over the n - k pairs there
\* are, divided by n - k
acovf(x) ==
    LET n == Len(x)
    IN  [i \in 1 .. n |->
            LET m == n - i + 1
                products == [t \in 1 .. m |-> x[t] * x[t + i - 1]]
            IN  Frac(ISum(products, 1 .. m), m)]

_calculate_auto_covariance(adjacency_matrix, columns) ==
    LET solutes == {k[2] : k \in DOMAIN adjacency_matrix}
        \* the rows of one solute's group, in index order
        frames(s) == Sorted({k[1] : k \in {x \in DOMAIN adjacency_matrix :
                                              x[2] = s}})
        \* df.loc[:, (df != 0).any(axis=0)]
        non_zero_cols ==
            {c \in solutes \X columns :
                \E k \in DOMAIN adjacency_matrix :
                    k[2] = c[1] /\ adjacency_matrix[k][c[2]] # 0}
        curve(c) ==
            acovf([i \in 1 .. Len(frames(c[1])) |->
                      adjacency_matrix[<<frames(c[1])[i], c[1]>>][c[2]]])
        curves == [c \in non_zero_cols |-> curve(c)]
        lengths == {Len(frames(s)) : s \in solutes}
    IN  \* np.concatenate(auto_covariances, axis=1) needs blocks of one height
        IF Cardinality(lengths) # 1
        THEN [raised |-> TRUE, error |-> "ValueError"]
        ELSE [raised |-> FALSE,
              value |->
                  [i \in 1 .. Min(lengths) |->
                      FDiv(FSum([c \in non_zero_cols |-> curves[c][i]],
                                non_zero_cols),
                           FromInt(Cardinality(non_zero_cols)))]]

\* what scipy's curve_fit can do with at least NParams finite points: it
\* returns parameters (a, b, c), or raises RuntimeError when the least
\* squares iteration does not converge
FitOutcomes ==
    {[converged |-> FALSE]}
      \cup {[converged |-> TRUE, params |-> <<FromInt(1), b, FromInt(0)>>] :
               b \in {Frac(1, 2), FromInt(1)}}

_calculate_residence_time(auto_covariance, outcome) ==
    LET auto_covariance_norm ==
            [i \in DOMAIN auto_covariance |->
                FDiv(auto_covariance[i], auto_covariance[1])]
    IN  \* curve_fit checks ydata with asarray_chkfinite
        IF \E i \in DOMAIN auto_covariance_norm :
               IsNaN(auto_covariance_norm[i])
        THEN [raised |-> TRUE, error |-> "ValueError"]
        \* fewer data points than parameters
        ELSE IF Len(auto_covariance_norm) < NParams
        THEN [raised |-> TRUE, error |-> "TypeError"]
        \* except RuntimeError
        ELSE IF ~outcome.converged
        THEN [raised |-> FALSE, fit_failed |-> TRUE,
              tau |-> NaN, params |-> <<NaN, NaN, NaN>>]
        ELSE [raised |-> FALSE, fit_failed |-> FALSE,
              tau |-> FDiv(FromInt(1), outcome.params[2]),
              params |-> outcome.params]

\* f with the entry k |-> v added
Put(f, k, v) == [x \in DOMAIN f \cup {k} |-> IF x = k THEN v ELSE f[x]]

\* the loop of _calculate_residence_coordination from the i-th type on.
\* acc holds residence_times and fit_parameters as filled so far, with
\*  - adjacency_df: the adjacency_df handed to _calculate_auto_covariance,
\*    for every type the loop reached;
\*  - fit_attempted / fit_failed: the types curve_fit was called for, and
\*    those for which it raised.
RECURSIVE ResidenceLoop(_, _, _, _)
ResidenceLoop(sd, fit, i, acc) ==
    IF i > Len(NameOrder) THEN acc
    ELSE IF NameOrder[i] \notin ResNames(sd)
    THEN ResidenceLoop(sd, fit, i + 1, acc)
    ELSE
      LET res_name == NameOrder[i]
          res_solvation_data == {e \in sd : e.res_name = res_name}
          columns == {e.res_ix : e \in res_solvation_data}
          adjacency_mini == calculate_adjacency_dataframe(res_solvation_data)
          adjacency_df == Reindex(adjacency_mini, frame_solute_index(sd),
                                  columns)
          reached == [acc EXCEPT !.adjacency_df =
                                     Put(@, res_name, adjacency_df)]
          auto_covariance == _calculate_auto_covariance(adjacency_df, columns)
          fitted == _calculate_residence_time(auto_covariance.value,
                                              fit[res_name])
      IN  IF auto_covariance.raised
          THEN [reached EXCEPT !.raised = TRUE,
                               !.error = auto_covariance.error]
          ELSE IF fitted.raised
          THEN [reached EXCEPT !.raised = TRUE,
                               !.error = fitted.error,
                               !.fit_attempted = @ \cup {res_name},
                               !.fit_failed = @ \cup {res_name}]
          ELSE ResidenceLoop(sd, fit, i + 1,
                 [reached EXCEPT
                    !.residence_times = Put(@, res_name, fitted.tau),
                    !.fit_parameters = Put(@, res_name, fitted.params),
                    !.fit_attempted = @ \cup {res_name},
                    !.fit_failed = IF fitted.fit_failed
                                   THEN @ \cup {res_name} ELSE @])

\* an error leaves the constructor before residence_times and
\* fit_parameters are assigned
_calculate_residence_coordination(sd, fit) ==
    LET done == ResidenceLoop(sd, fit, 1,
                    [built |-> TRUE, raised |-> FALSE, error |-> "none",
                     residence_times |-> <<>>, fit_parameters |-> <<>>,
                     adjacency_df |-> <<>>,
                     fit_attempted |-> {}, fit_failed |-> {}])
    IN  IF done.raised
        THEN [done EXCEPT !.residence_times = <<>>, !.fit_parameters = <<>>]
        ELSE done

\* Residence.__init__; fit is what curve_fit does for each type
ResidenceInit ==
    /\ ~residence.built
    /\ \E fit \in [SolventNames -> FitOutcomes] :
          residence' = _calculate_residence_coordination(solvation_data, fit)
    /\ UNCHANGED <<inputs, speciation, coordination, pairing, ret>>

\* Residence is fed runs long enough for the fit to have NParams points
InitResidence ==
    /\ n_frames \in 1 .. MaxResidenceFrames
    /\ n_solutes \in 1 .. MaxSolutes
    /\ solvation_data \in
          (TablesUpTo(MaxEvents, AllEvents(n_frames, n_solutes)) \ {{}})
    /\ solvent_counts = NSolvents
    /\ speciation = NotBuilt
    /\ coordination = NotBuilt
    /\ pairing = NotBuilt
    /\ residence = NotBuilt
    /\ ret = NoCall

NextResidence == ResidenceInit

SpecResidence == InitResidence /\ [][NextResidence]_vars

Next ==
    \/ SpeciationInit
    \/ ShellPercent
    \/ FindShells
    \/ CoordinationInit
    \/ PairingInit
    \/ ResidenceInit
    \/ GenerateClusters

Spec == Init /\ [][Next]_vars

(***************************************************************************)
(* The claims.  Quantities the claims speak of, computed from the raw      *)
(* event table.                                                            *)
(***************************************************************************)
\* the residue indices of type t coordinating solute s in frame f
CoordinatingResidues(f, s, t) ==
    {e.res_ix : e \in {x \in solvation_data : /\ x.frame = f
                                               /\ x.solvated_atom = s
                                               /\ x.res_name = t}}

\* the residue indices of type t that have an event in frame f
CoordinatedInFrame(f, t) ==
    {e.res_ix : e \in {x \in solvation_data : x.frame = f /\ x.res_name = t}}

AllFrames == 0 .. (n_frames - 1)

AllSolutes == 0 .. (n_solutes - 1)

\* C1: every row (frame, solute) of the shell table sums, across its
\* columns, to the number of distinct residue indices coordinating that
\* solute in that frame.
C1_RowSumIsDistinctResidues ==
    speciation.built =>
        \A fs \in DOMAIN speciation.speciation_data :
            ISum(speciation.speciation_data[fs],
                 DOMAIN speciation.speciation_data[fs])
              = Cardinality(UNION {CoordinatingResidues(fs[1], fs[2], t) :
                                     t \in SolventNames})

\* C2: the frequencies of the shell distribution sum to exactly 1, also
\* when some (frame, solute) pair has no event.
C2_FrequenciesSumToOne ==
    speciation.built => SumCount(speciation.speciation_percent) = FromInt(1)

\* no residue touches a solute through two atoms in one frame: the rows of
\* a (frame, solute, type) group and its distinct residues are equally many
OneAtomPerContact ==
    \A e1, e2 \in solvation_data :
        ( /\ e1.frame = e2.frame
          /\ e1.solvated_atom = e2.solvated_atom
          /\ e1.res_ix = e2.res_ix ) => e1 = e2

\* C3: cn_by_frame holds, for every residue type and frame, the number of
\* coordinating residues of the type summed over the solutes of the frame,
\* divided by n_solutes only; the mean of a type's per-frame values over all
\* frames is cn_dict[type].  (Stated for the tables in which every contact
\* is made by one atom, so that the claim is tested on the division alone.)
C3_CnByFrameIsSoluteAverage ==
    (coordination.built /\ OneAtomPerContact) =>
        \A t \in ResNames(solvation_data) :
            /\ \A f \in AllFrames :
                  /\ <<t, f>> \in DOMAIN coordination.cn_by_frame
                  /\ coordination.cn_by_frame[<<t, f>>]
                       = Frac(ISum([s \in AllSolutes |->
                                      Cardinality(CoordinatingResidues(f, s, t))],
                                   AllSolutes),
                              n_solutes)
            /\ coordination.cn_dict[t]
                 = FDiv(FSum([f \in AllFrames |->
                                IF <<t, f>> \in DOMAIN coordination.cn_by_frame
                                THEN coordination.cn_by_frame[<<t, f>>]
                                ELSE NaN],
                             AllFrames),
                        FromInt(n_frames))

\* C4: a residue type with a positive population in n_solvents and no row
\* in the event table is a key of percent_free_solvents, with value 1.
C4_NeverCoordinatedIsFree ==
    pairing.built =>
        \A t \in DOMAIN solvent_counts :
            (solvent_counts[t] > 0 /\ t \notin ResNames(solvation_data)) =>
                /\ t \in DOMAIN pairing.percent_free_solvents
                /\ pairing.percent_free_solvents[t] = FromInt(1)

\* the free residues of type t in frame f: the population minus the
\* residues that have an event in the frame
Free(t, f) == solvent_counts[t] - Cardinality(CoordinatedInFrame(f, t))

DiluentShare(t, f) ==
    Frac(Free(t, f),
         ISum([u \in DOMAIN solvent_counts |-> Free(u, f)],
              DOMAIN solvent_counts))

\* C5: for every frame and every type of n_solvents the per-frame diluent
\* share is free(T, frame) / sum of free(U, frame) over all types;
\* diluent_composition[T] is the mean of the shares over all frames, is
\* defined for every type, and the values sum to 1.
C5_DiluentComposition ==
    pairing.built =>
        /\ \A f \in AllFrames : \A t \in DOMAIN solvent_counts :
              /\ <<f, t>> \in DOMAIN pairing.diluent_by_frame
              /\ pairing.diluent_by_frame[<<f, t>>] = DiluentShare(t, f)
        /\ DOMAIN pairing.diluent_composition = DOMAIN solvent_counts
        /\ \A t \in DOMAIN solvent_counts :
              pairing.diluent_composition[t]
                = FDiv(FSum([f \in AllFrames |-> DiluentShare(t, f)],
                            AllFrames),
                       FromInt(n_frames))
        /\ FSum(pairing.diluent_composition,
                DOMAIN pairing.diluent_composition) = FromInt(1)

\* C6: shell_percent({}) does not fail and returns 1.
C6_EmptySpecIsOne ==
    (ret.op = "shell_percent" /\ DOMAIN ret.shell_dict = {}) =>
        /\ ~ret.raised
        /\ ret.value = FromInt(1)

\* C7: shell_percent and find_shells fail for every specification with a
\* key that occurs as res_name nowhere in the event table, the key 'count'
\* included.
C7_UnknownKeyFails ==
    ( /\ ret.op \in {"shell_percent", "find_shells"}
      /\ \E name \in DOMAIN ret.shell_dict :
            name \notin ResNames(solvation_data) )
        => ret.raised

C9_PairingFractions ==
    pairing.built =>
        \A t \in ResNames(solvation_data) :
            /\ t \in DOMAIN pairing.pairing_dict
            /\ pairing.pairing_dict[t]
                 = Frac(Cardinality({fs \in AllFrames \X AllSolutes :
                           CoordinatingResidues(fs[1], fs[2], t) # {}}),
                        n_solutes * n_frames)
            /\ pairing.pairing_dict[t][1] >= 0
            /\ pairing.pairing_dict[t][1] <= pairing.pairing_dict[t][2]
            /\ \A f \in AllFrames :
                  /\ <<t, f>> \in DOMAIN pairing.pairing_by_frame
                  /\ pairing.pairing_by_frame[<<t, f>>]
                       = Frac(Cardinality({s \in AllSolutes :
                                 CoordinatingResidues(f, s, t) # {}}),
                              n_solutes)

\* the solvent types a generate_clusters call asked for
Requested(call) ==
    IF call.solvents.kind = "str" THEN {call.solvents.name}
    ELSE call.solvents.names

\* the coordination edges of frame f among the requested types, as pairs
\* (solute residue index, solvent residue index), however many atoms
\* realise each
FrameEdges(f, types) ==
    {<<SoluteResIx[e.solvated_atom], e.res_ix>> :
        e \in {x \in solvation_data : x.frame = f /\ x.res_name \in types}}

Members(edges) == {p[1] : p \in edges} \cup {p[2] : p \in edges}

\* the members a path of edges joins to a member of S
RECURSIVE PathClosure(_, _)
PathClosure(edges, S) ==
    LET step == S \cup {p[2] : p \in {e \in edges : e[1] \in S}}
                  \cup {p[1] : p \in {e \in edges : e[2] \in S}}
    IN  IF step = S THEN S ELSE PathClosure(edges, step)

\* the pairs of members joined by a path of edges
Joined(edges) ==
    UNION {{<<m, n>> : n \in PathClosure(edges, {m})} : m \in Members(edges)}

\* the rows of a returned cluster table that belong to frame f
FrameRows(table, f) == {i \in DOMAIN table : table[i].frame = f}

ClusterSizes(table, f) ==
    {Cardinality({j \in FrameRows(table, f) :
                     table[j].cluster = table[i].cluster}) :
        i \in FrameRows(table, f)}

\* rows: the frame's rows of the table; members, joined: the members of
\* the frame's edges and the pairs of them a path joins
FrameIsClusteredAs(table, edges, rows, members, joined) ==
    LET sizes == {Cardinality({j \in rows :
                                  table[j].cluster = table[i].cluster}) :
                     i \in rows}
    IN
    /\ \* every member of the frame exactly once, and nothing else
       \A i \in rows : table[i].res_ix \in members
    /\ \A m \in members :
          Cardinality({i \in rows : table[i].res_ix = m}) = 1
    /\ \* the same cluster id exactly for the members joined by a path
       \A i, j \in rows :
          (table[i].cluster = table[j].cluster)
            <=> (<<table[i].res_ix, table[j].res_ix>> \in joined)
    /\ \* one solute with one residue: one cluster of size 2
       Cardinality(edges) = 1 =>
          (Cardinality(rows) = 2 /\ sizes = {2})
    /\ \* two solutes, each with its own residue: two clusters of size 2;
       \* two solutes sharing one residue: one cluster of size 3
       \A p, q \in edges :
          (edges = {p, q} /\ p[1] # q[1]) =>
             IF p[2] # q[2]
             THEN Cardinality(rows) = 4 /\ sizes = {2}
             ELSE Cardinality(rows) = 3 /\ sizes = {3}

\* the graph of a table that holds frame f alone, with one atom per edge
EdgeGraph(f, edges) ==
    [k \in {<<f, p[1]>> : p \in edges} |->
        [r \in {p[2] : p \in edges} |->
            IF <<k[2], r>> \in edges THEN 1 ELSE 0]]

FrameIsClustered(table, f, edges) ==
    /\ Bind(<<FrameRows(table, f), Members(edges), Joined(edges)>>,
            LAMBDA v : FrameIsClusteredAs(table, edges, v[1], v[2], v[3]))
    /\ \* the rows, cluster ids included, are those of the frame's edges
       \* alone, each realised by a single atom
       edges # {} =>
          SelectSeq(table, LAMBDA r : r.frame = f)
            = Bind(EdgeGraph(f, edges), ClusterFrame)

\* C10: for every frame, the rows generate_clusters returns for the frame
\* hold every solute and solvent residue index with an event of the
\* requested types in that frame exactly once, and two members share a
\* cluster id iff a path of that frame's events of the requested types
\* joins them; the frame's rows are decided by that frame's set of edges
\* alone.
C10_ClustersAreComponents ==
    (ret.op = "generate_clusters" /\ ~ret.raised) =>
        \A f \in AllFrames :
            Bind(FrameEdges(f, Requested(ret)),
                 LAMBDA edges : FrameIsClustered(ret.value, f, edges))

\* C10's case: a call returned, and in one frame two solutes share one
\* residue, one of them through two atoms, which gives one cluster of
\* three members.
C10_Witness ==
    /\ ret.op = "generate_clusters"
    /\ ~ret.raised
    /\ \E f \in AllFrames :
          /\ Cardinality(FrameEdges(f, Requested(ret))) = 2
          /\ Cardinality({e \in solvation_data : e.frame = f}) = 3
          /\ Cardinality(Members(FrameEdges(f, Requested(ret)))) = 3
          /\ Cardinality({p[1] : p \in FrameEdges(f, Requested(ret))}) = 2
          /\ ClusterSizes(ret.value, f) = {3}

(***************************************************************************)
(* C12: the end-to-end scenario                                            *)
(***************************************************************************)
\* the scenario's tables: 2 frames, 1 solute, populations A: 2, B: 1;
\* frame 0 holds one atom of each of the two A residues, frame 1 one atom
\* of the B residue
ScenarioTables ==
    {T \in SUBSET AllEvents(2, 1) :
        /\ Cardinality(T) = 3
        /\ {<<e.frame, e.res_ix, e.res_name>> : e \in T} =
              {<<0, 0, "A">>, <<0, 1, "A">>, <<1, 2, "B">>}}

IsScenario ==
    /\ n_frames = 2
    /\ n_solutes = 1
    /\ solvent_counts = [t \in SolventNames |-> IF t = "A" THEN 2 ELSE 1]
    /\ solvation_data \in ScenarioTables

\* C12: for the scenario table (2 frames, 1 solute, A with 2 instances and
\* B with 1; frame 0 both A instances with one atom each, frame 1 the B
\* instance only) cn_dict is {A: 1.0, B: 0.5}, pairing_dict is
\* {A: 0.5, B: 0.5} and percent_free_solvents[A] is 0.5.
C12_EndToEndScenario ==
    IsScenario =>
        /\ coordination.built =>
              coordination.cn_dict =
                  [t \in {"A", "B"} |-> IF t = "A" THEN Frac(1, 1)
                                                   ELSE Frac(1, 2)]
        /\ pairing.built =>
              /\ pairing.pairing_dict = [t \in {"A", "B"} |-> Frac(1, 2)]
              /\ "A" \in DOMAIN pairing.percent_free_solvents
              /\ pairing.percent_free_solvents["A"] = Frac(1, 2)

C12_Witness == IsScenario /\ coordination.built /\ pairing.built

(***************************************************************************)
(* C11, C13: Residence                                                     *)
(***************************************************************************)
\* C11: whenever the exponential fit of a residue type fails (no
\* convergence, or any error raised by the fit), the constructor does not
\* raise, that type's residence_times entry is NaN and its fit_parameters
\* entry is a triple of NaN, and both dictionaries have one key per residue
\* type of the event table.
C11_FitFailureIsNaN ==
    (residence.built /\ residence.fit_failed # {}) =>
        /\ ~residence.raised
        /\ DOMAIN residence.residence_times = ResNames(solvation_data)
        /\ DOMAIN residence.fit_parameters = ResNames(solvation_data)
        /\ \A t \in residence.fit_failed :
              /\ residence.residence_times[t] = NaN
              /\ residence.fit_parameters[t] = <<NaN, NaN, NaN>>

\* the number of rows that join solute s to residue r in frame f
Occupancy(f, s, r) ==
    Cardinality({e \in solvation_data : /\ e.frame = f
                                        /\ e.solvated_atom = s
                                        /\ e.res_ix = r})

\* C13: for every residue type, the adjacency series handed to the
\* autocovariance step has exactly one row for every (frame, solute) pair of
\* all simulated frames x all solutes, with 0 wherever the solute has no
\* event with the residue instance in that frame, also for the pairs the
\* event table has no row for.
C13_AdjacencyOnFullDomain ==
    residence.built =>
        \A t \in DOMAIN residence.adjacency_df :
            LET adjacency_df == residence.adjacency_df[t]
            IN  /\ DOMAIN adjacency_df = AllFrames \X AllSolutes
                /\ \A k \in DOMAIN adjacency_df :
                      \A r \in DOMAIN adjacency_df[k] :
                          Occupancy(k[1], k[2], r) = 0 =>
                              adjacency_df[k][r] = 0

====
